---- MODULE Spec2Model ----
(***************************************************************************)
(* Model of google-maps-promise (src/src/index.ts): a singleton loader    *)
(* that injects the Google Maps script once per session and exposes the   *)
(* result as a shared Promise; release() resets the loader.               *)
(*                                                                         *)
(* JavaScript runs on one event loop: a task (a caller's top-level call,  *)
(* a script's load or error event) starts only when the microtask queue   *)
(* is empty, and Promise reactions run one by one from that queue.        *)
(***************************************************************************)
EXTENDS Integers, Sequences, FiniteSets, TLC

\* Bounds of the model.
MaxSessions == 3    \* promises the loader may create (init() calls)
MaxReactions == 1   \* caller continuations registered on one promise

\* JavaScript values.
Null == ""                      \* null / undefined / '' of a setting: falsy
Undefined == "undefined"        \* an absent property of window
NoElement == 0                  \* scriptElement = null

Truthy(v) == v # Null

VARIABLES
    urlSettings,        \* current settings
    defaultLibraries,   \* contents of the array defaultUrlSettings.libraries
    sharedLibraries,    \* urlSettings.libraries is that same array object
    resolvePromise,     \* promise the resolve binding settles
    rejectPromise,      \* promise the reject binding settles
    promise,            \* the API loading promise (index into promises)
    loaded,             \* is loading process already executed?
    scriptElement,      \* script element used to load API (index into scripts)
    promises,           \* every promise created by init(): [state, value]
    reactions,          \* per promise, the reactions registered with then()
    microtasks,         \* the microtask queue: reactions of settled promises
    google,             \* window.google.maps, or Undefined
    windowCallbacks,    \* names of window that hold the loader's callback
    scripts,            \* script elements created: src, the callback parameter of
                        \* src, attached, status; history: parts, slot, owner
    session,            \* history: number of completed cleanups
    returned,           \* history: the promises load() returned in this session
    ended,              \* history: promise, script and loaded flag of the session
                        \* the last cleanup ended
    trigger,            \* history: google.maps at this session's first load()
    injections,         \* history: script injections of the current session
    registrations,      \* history: callback registrations of the current session
    last                \* history: the operation that made the last step

vars == <<urlSettings, defaultLibraries, sharedLibraries, resolvePromise, rejectPromise, promise, loaded,
          scriptElement, promises, reactions, microtasks, google,
          windowCallbacks, scripts, session, returned, ended,
          trigger, injections, registrations, last>>

defaultUrlSettings ==
    [ url |-> "https://maps.googleapis.com/maps/api/js",
      key |-> Null,
      client |-> Null,
      version |-> "3.32",
      channel |-> Null,
      libraries |-> defaultLibraries,
      language |-> Null,
      region |-> Null,
      windowCallbackName |-> "__google_maps_api_provider_initializator__" ]

RECURSIVE join(_, _)
join(parts, sep) ==
    IF parts = <<>> THEN ""
    ELSE IF Len(parts) = 1 THEN parts[1]
    ELSE parts[1] \o sep \o join(Tail(parts), sep)

Or(a, b) == IF Truthy(a) THEN a ELSE b

\* A createUrl() whose version test is one if/else on the version alone: no
\* default version for a client.
urlPartsVersionOnly(s) ==
    LET p1 == << "callback=" \o Or(s.windowCallbackName,
                                   defaultUrlSettings.windowCallbackName) >>
        p2 == IF Truthy(s.key) THEN Append(p1, "key=" \o s.key) ELSE p1
        p3 == IF Truthy(s.client) THEN Append(p2, "client=" \o s.client) ELSE p2
        p3v == IF Truthy(s.version) THEN Append(p3, "v=" \o s.version) ELSE p3
        p4 == IF Truthy(s.channel) THEN Append(p3v, "channel=" \o s.channel) ELSE p3v
        p5 == IF Len(s.libraries) > 0
              THEN Append(p4, "libraries=" \o join(s.libraries, ","))
              ELSE p4
        p6 == IF Truthy(s.language) THEN Append(p5, "language=" \o s.language)
              ELSE p5
        p7 == IF Truthy(s.region) THEN Append(p6, "region=" \o s.region) ELSE p6
    IN  p7

\* createUrl(): the array parts built from settings s.
urlParts(s) ==
    LET p1 == << "callback=" \o Or(s.windowCallbackName,
                                   defaultUrlSettings.windowCallbackName) >>
        p2 == IF Truthy(s.key) THEN Append(p1, "key=" \o s.key) ELSE p1
        p3 == IF Truthy(s.client)
              THEN p2 \o << "client=" \o s.client,
                            "v=" \o Or(s.version, defaultUrlSettings.version) >>
              ELSE IF Truthy(s.version) THEN Append(p2, "v=" \o s.version)
              ELSE p2
        p4 == IF Truthy(s.channel) THEN Append(p3, "channel=" \o s.channel) ELSE p3
        p5 == IF Len(s.libraries) > 0
              THEN Append(p4, "libraries=" \o join(s.libraries, ","))
              ELSE p4
        p6 == IF Truthy(s.language) THEN Append(p5, "language=" \o s.language)
              ELSE p5
        p7 == IF Truthy(s.region) THEN Append(p6, "region=" \o s.region) ELSE p6
    IN  p7

\* A createUrl() that pushes the region before the language.
createUrlRegionFirst(s) ==
    LET ps == urlParts([s EXCEPT !.language = Null, !.region = Null])
        p8 == IF Truthy(s.region) THEN Append(ps, "region=" \o s.region) ELSE ps
        p9 == IF Truthy(s.language) THEN Append(p8, "language=" \o s.language)
              ELSE p8
    IN  Or(s.url, defaultUrlSettings.url) \o "?" \o join(p9, "&")

\* createUrl(): the URL built from settings s.
createUrl(s) ==
    Or(s.url, defaultUrlSettings.url) \o "?" \o join(urlParts(s), "&")

(***************************************************************************)
(* The program state as one record, so that the functions of index.ts     *)
(* compose as they do in the code (release calls cleanupEnvironment,      *)
(* which calls init; load calls createLoader).                            *)
(***************************************************************************)
Cur ==
    [ urlSettings |-> urlSettings, defaultLibraries |-> defaultLibraries,
      sharedLibraries |-> sharedLibraries,
      resolvePromise |-> resolvePromise, rejectPromise |-> rejectPromise,
      promise |-> promise, loaded |-> loaded, scriptElement |-> scriptElement,
      promises |-> promises, reactions |-> reactions, microtasks |-> microtasks,
      google |-> google, windowCallbacks |-> windowCallbacks,
      scripts |-> scripts, session |-> session, returned |-> returned,
      ended |-> ended, trigger |-> trigger,
      injections |-> injections, registrations |-> registrations ]

Becomes(S) ==
    /\ urlSettings' = S.urlSettings
    /\ defaultLibraries' = S.defaultLibraries
    /\ sharedLibraries' = S.sharedLibraries
    /\ resolvePromise' = S.resolvePromise
    /\ rejectPromise' = S.rejectPromise
    /\ promise' = S.promise
    /\ loaded' = S.loaded
    /\ scriptElement' = S.scriptElement
    /\ promises' = S.promises
    /\ reactions' = S.reactions
    /\ microtasks' = S.microtasks
    /\ google' = S.google
    /\ windowCallbacks' = S.windowCallbacks
    /\ scripts' = S.scripts
    /\ session' = S.session
    /\ returned' = S.returned
    /\ ended' = S.ended
    /\ trigger' = S.trigger
    /\ injections' = S.injections
    /\ registrations' = S.registrations

(***************************************************************************)
(* Promise primitive.                                                      *)
(***************************************************************************)
Pending == [state |-> "pending", value |-> Undefined]

\* Jobs of the reactions rs of a promise that settled with outcome st.
ReactionJobs(rs, st) ==
    [i \in 1..Len(rs) |-> [kind |-> rs[i], outcome |-> st]]

\* resolve/reject of promise id: a promise settles once; later calls do nothing.
Settle(S, id, st, v) ==
    IF S.promises[id].state = "pending"
    THEN [S EXCEPT !.promises[id] = [state |-> st, value |-> v],
                   !.microtasks = @ \o ReactionJobs(S.reactions[id], st),
                   !.reactions[id] = <<>>]
    ELSE S

\* promise.then( reaction ) on promise id.
Then(S, id, kind) ==
    IF S.promises[id].state = "pending"
    THEN [S EXCEPT !.reactions[id] = Append(@, kind)]
    ELSE [S EXCEPT !.microtasks =
              Append(@, [kind |-> kind, outcome |-> S.promises[id].state])]

(***************************************************************************)
(* The functions of index.ts.                                              *)
(***************************************************************************)
\* An init() that resets the settings and the flag but keeps the promise.
initSamePromise(S) ==
    [S EXCEPT !.urlSettings = defaultUrlSettings,
              !.sharedLibraries = TRUE,
              !.loaded = FALSE]

\* init(): fresh settings, loaded = false, a new promise and its bindings.
\* Object.assign( {}, defaultUrlSettings ) copies the properties, so the new
\* settings refer to the libraries array of the defaults.
init(S) ==
    LET id == Len(S.promises) + 1
    IN  [S EXCEPT !.urlSettings = defaultUrlSettings,
                  !.sharedLibraries = TRUE,
                  !.loaded = FALSE,
                  !.promises = Append(@, Pending),
                  !.reactions = Append(@, <<>>),
                  !.promise = id,
                  !.resolvePromise = id,
                  !.rejectPromise = id]

\* The text of the URIError made by onError, read when the error fires.
ErrorMessage(S) ==
    "The script "
    \o (IF S.scriptElement = NoElement THEN "null"
        ELSE S.scripts[S.scriptElement].src)
    \o " is not accessible."

\* onError of a script element: rejectPromise( new URIError( ... ) ).
onError(S) == Settle(S, S.rejectPromise, "rejected", ErrorMessage(S))

\* A callback that resolves with what window.google held when the callback
\* was registered: nothing.
windowCallbackEager(S) ==
    Settle(S, S.resolvePromise, "fulfilled", Undefined)

\* The function stored in window[windowCallbackName]: it throws a TypeError
\* when window.google is undefined, and then resolves nothing.
windowCallback(S) ==
    IF S.google = Undefined THEN S
    ELSE Settle(S, S.resolvePromise, "fulfilled", S.google)

\* A createLoader() that builds the URL and the callback name from the
\* default settings instead of the current ones.
createLoaderDefaults(S) ==
    IF S.google # Undefined
    THEN Settle(S, S.resolvePromise, "fulfilled", S.google)
    ELSE LET el == [ src |-> createUrl(defaultUrlSettings),
                     parts |-> urlParts(defaultUrlSettings),
                     callback |-> defaultUrlSettings.windowCallbackName,
                     slot |-> defaultUrlSettings.windowCallbackName,
                     owner |-> S.promise,
                     attached |-> TRUE,
                     status |-> "loading" ]
         IN  [S EXCEPT !.scripts = Append(@, el),
                       !.scriptElement = Len(S.scripts) + 1,
                       !.windowCallbacks = @ \cup {defaultUrlSettings.windowCallbackName},
                       !.injections = @ + 1,
                       !.registrations = @ + 1]

\* createLoader(): resolve at once when the API is there, else inject a script.
createLoader(S) ==
    IF S.google # Undefined
    THEN Settle(S, S.resolvePromise, "fulfilled", S.google)
    ELSE LET el == [ src |-> createUrl(S.urlSettings),
                     parts |-> urlParts(S.urlSettings),
                     callback |-> Or(S.urlSettings.windowCallbackName,
                                     defaultUrlSettings.windowCallbackName),
                     slot |-> S.urlSettings.windowCallbackName,
                     owner |-> S.promise,
                     attached |-> TRUE,
                     status |-> "loading" ]
         IN  [S EXCEPT !.scripts = Append(@, el),
                       !.scriptElement = Len(S.scripts) + 1,
                       !.windowCallbacks = @ \cup {S.urlSettings.windowCallbackName},
                       !.injections = @ + 1,
                       !.registrations = @ + 1]

\* A load() that hands a new promise to every call after the first one.
loadResultFresh(S) ==
    IF S.returned = {} THEN S.promise ELSE Len(S.promises) + 1

\* The promise load() returns.
loadResult(S) == S.promise

\* A load() that does not look at the loaded flag.
loadUnguarded(S) ==
    LET T == createLoader([S EXCEPT !.loaded = TRUE,
                                    !.trigger = IF S.loaded THEN @ ELSE S.google])
    IN  [T EXCEPT !.returned = @ \cup {loadResult(T)}]

\* load(): start the loader on the first call; the state after the call.
load(S) ==
    LET T == IF ~S.loaded
             THEN createLoader([S EXCEPT !.loaded = TRUE, !.trigger = S.google])
             ELSE S
    IN  [T EXCEPT !.returned = @ \cup {loadResult(T)}]

\* A cleanupEnvironment() that forgets the script element without removing
\* it from the document.
cleanupKeepsScript(S) ==
    LET T == init(S)
        name == T.urlSettings.windowCallbackName
    IN  [T EXCEPT !.google = Undefined,
                  !.windowCallbacks = @ \ {name},
                  !.scriptElement = NoElement,
                  !.session = @ + 1,
                  !.returned = {},
                  !.ended = [promise |-> S.promise, script |-> S.scriptElement,
                             started |-> S.loaded],
                  !.trigger = "none",
                  !.injections = 0,
                  !.registrations = 0]

\* A cleanupEnvironment() that removes the script element from the document
\* but keeps its handle.
cleanupKeepsHandle(S) ==
    LET T == init(S)
        name == T.urlSettings.windowCallbackName
    IN  [T EXCEPT !.google = Undefined,
                  !.windowCallbacks = @ \ {name},
                  !.scripts = IF T.scriptElement = NoElement THEN @
                              ELSE [@ EXCEPT ![T.scriptElement].attached = FALSE],
                  !.session = @ + 1,
                  !.returned = {},
                  !.ended = [promise |-> S.promise, script |-> S.scriptElement,
                             started |-> S.loaded],
                  !.trigger = "none",
                  !.injections = 0,
                  !.registrations = 0]

\* cleanupEnvironment(): init(), then remove the globals and the script.
cleanupEnvironment(S) ==
    LET T == init(S)
        name == T.urlSettings.windowCallbackName
    IN  [T EXCEPT !.google = Undefined,
                  !.windowCallbacks = @ \ {name},
                  !.scripts = IF T.scriptElement = NoElement THEN @
                              ELSE [@ EXCEPT ![T.scriptElement].attached = FALSE],
                  !.scriptElement = NoElement,
                  !.session = @ + 1,
                  !.returned = {},
                  !.ended = [promise |-> S.promise, script |-> S.scriptElement,
                             started |-> S.loaded],
                  !.trigger = "none",
                  !.injections = 0,
                  !.registrations = 0]

\* A release() that always waits for the promise.
releaseDeferred(S) == Then(S, S.promise, "cleanup")

\* release(): clean up now when nothing was loaded, else after the promise.
release(S) ==
    IF ~S.loaded THEN cleanupEnvironment(S)
    ELSE Then(S, S.promise, "cleanup")

\* The promise release() returns: Promise.resolve(), or the promise derived
\* by then(), which is pending until the reaction has run.
releaseResult(S) == IF ~S.loaded THEN "resolved" ELSE "pending"

(***************************************************************************)
(* Initial state: the module has been evaluated, init() has run once.     *)
(***************************************************************************)
Init ==
    /\ defaultLibraries = <<>>
    /\ sharedLibraries = TRUE
    /\ urlSettings = defaultUrlSettings
    /\ promises = <<Pending>>
    /\ reactions = << <<>> >>
    /\ promise = 1
    /\ resolvePromise = 1
    /\ rejectPromise = 1
    /\ loaded = FALSE
    /\ scriptElement = NoElement
    /\ microtasks = <<>>
    /\ google = Undefined
    /\ windowCallbacks = {}
    /\ scripts = <<>>
    /\ session = 0
    /\ returned = {}
    /\ ended = [promise |-> 0, script |-> NoElement, started |-> FALSE]
    /\ trigger = "none"
    /\ injections = 0
    /\ registrations = 0
    /\ last = [op |-> "init", result |-> "none"]

\* A task starts only when no microtask is waiting.
Idle == microtasks = <<>>

\* cleanup reactions that have not run yet; each one creates a promise.
RECURSIVE CountKind(_, _)
CountKind(rs, k) ==
    IF rs = <<>> THEN 0
    ELSE (IF Head(rs) = k THEN 1 ELSE 0) + CountKind(Tail(rs), k)

RECURSIVE SumCleanups(_)
SumCleanups(i) ==
    IF i = 0 THEN 0 ELSE CountKind(reactions[i], "cleanup") + SumCleanups(i - 1)

PendingCleanups ==
    SumCleanups(Len(reactions))
    + CountKind([i \in 1..Len(microtasks) |-> microtasks[i].kind], "cleanup")

CanCleanup == Len(promises) + PendingCleanups < MaxSessions

(***************************************************************************)
(* The caller's tasks.                                                     *)
(***************************************************************************)
CallbackNames == {defaultUrlSettings.windowCallbackName, "cb"}

\* urlSettings.windowCallbackName = n
SetCallbackName(n) ==
    /\ Idle
    /\ urlSettings.windowCallbackName # n
    /\ urlSettings' = [urlSettings EXCEPT !.windowCallbackName = n]
    /\ last' = [op |-> "configure", result |-> "none"]
    /\ UNCHANGED <<defaultLibraries, sharedLibraries, resolvePromise, rejectPromise, promise, loaded,
                   scriptElement, promises, reactions, microtasks, google,
                   windowCallbacks, scripts, session, returned, ended, trigger, injections,
                   registrations>>

\* urlSettings.libraries = ['geometry']: the setting refers to a new array.
AssignLibraries ==
    /\ Idle
    /\ sharedLibraries
    /\ urlSettings' = [urlSettings EXCEPT !.libraries = <<"geometry">>]
    /\ sharedLibraries' = FALSE
    /\ last' = [op |-> "configure", result |-> "none"]
    /\ UNCHANGED <<defaultLibraries, resolvePromise, rejectPromise, promise,
                   loaded, scriptElement, promises, reactions, microtasks,
                   google, windowCallbacks, scripts, session, returned, ended, trigger,
                   injections, registrations>>

\* urlSettings.libraries.push( 'geometry' ), by a caller that has not asked for
\* it yet: the array changes in place, and with it the defaults when it is
\* their array.
PushLibrary ==
    /\ Idle
    /\ \A i \in 1..Len(urlSettings.libraries) : urlSettings.libraries[i] # "geometry"
    /\ urlSettings' = [urlSettings EXCEPT !.libraries = Append(@, "geometry")]
    /\ defaultLibraries' = IF sharedLibraries
                           THEN Append(defaultLibraries, "geometry")
                           ELSE defaultLibraries
    /\ last' = [op |-> "configure", result |-> "none"]
    /\ UNCHANGED <<sharedLibraries, resolvePromise, rejectPromise, promise,
                   loaded, scriptElement, promises, reactions, microtasks,
                   google, windowCallbacks, scripts, session, returned, ended, trigger,
                   injections, registrations>>

\* load()
Load ==
    /\ Idle
    /\ Becomes(load(Cur))
    /\ last' = [op |-> "load", result |-> loadResult(load(Cur))]

\* load().then( () => load() )
LoadThen ==
    /\ Idle
    /\ CountKind(reactions[promise], "load") < MaxReactions
    /\ LET S == load(Cur)
       IN  /\ Becomes(Then(S, loadResult(S), "load"))
           /\ last' = [op |-> "load", result |-> loadResult(S)]

\* release() on a loader that was not started: cleanup before it returns.
ReleaseNow ==
    /\ Idle
    /\ ~loaded
    /\ CanCleanup
    /\ Becomes(release(Cur))
    /\ last' = [op |-> "releaseIdle", result |-> releaseResult(Cur)]

\* release() on a started loader: promise.then( cleanupEnvironment ).
ReleaseLater ==
    /\ Idle
    /\ loaded
    /\ CanCleanup
    /\ Becomes(release(Cur))
    /\ last' = [op |-> "release", result |-> releaseResult(Cur)]

(***************************************************************************)
(* The platform's tasks.                                                   *)
(***************************************************************************)
\* Another mechanism has put the API into the global scope.
Preload ==
    /\ Idle
    /\ google = Undefined
    /\ google' = "sentinel"
    /\ last' = [op |-> "preload", result |-> "none"]
    /\ UNCHANGED <<urlSettings, defaultLibraries, sharedLibraries, resolvePromise, rejectPromise, promise,
                   loaded, scriptElement, promises, reactions, microtasks,
                   windowCallbacks, scripts, session, returned, ended, trigger, injections,
                   registrations>>

\* The namespace object the API script i creates.
Namespace(i) == "maps" \o ToString(i)

\* Script i has been fetched and runs: it defines google.maps and calls the
\* function named by its callback parameter, when window has one.
ScriptLoads(i) ==
    /\ Idle
    /\ scripts[i].status = "loading"
    /\ LET S == [Cur EXCEPT !.scripts[i].status = "done",
                            !.google = Namespace(i)]
       IN  Becomes(IF scripts[i].callback \in windowCallbacks
                   THEN windowCallback(S) ELSE S)
    /\ last' = [op |-> "scriptLoads", result |-> i]

\* Script i could not be fetched: its error event calls onError.
ScriptFails(i) ==
    /\ Idle
    /\ scripts[i].status = "loading"
    /\ Becomes(onError([Cur EXCEPT !.scripts[i].status = "done"]))
    /\ last' = [op |-> "scriptFails", result |-> i]

(***************************************************************************)
(* Microtasks: the reaction at the head of the queue runs.                *)
(***************************************************************************)
Popped == [Cur EXCEPT !.microtasks = Tail(@)]

\* then( cleanupEnvironment ) of a fulfilled promise: release()'s promise
\* resolves after the cleanup.
RunCleanup ==
    /\ microtasks # <<>>
    /\ Head(microtasks) = [kind |-> "cleanup", outcome |-> "fulfilled"]
    /\ Becomes(cleanupEnvironment(Popped))
    /\ last' = [op |-> "cleanup", result |-> "resolved"]

\* then( cleanupEnvironment ) of a rejected promise: there is no rejection
\* handler, so cleanupEnvironment is not called and release()'s promise rejects.
SkipCleanup ==
    /\ microtasks # <<>>
    /\ Head(microtasks) = [kind |-> "cleanup", outcome |-> "rejected"]
    /\ Becomes(Popped)
    /\ last' = [op |-> "released", result |-> "rejected"]

\* The caller's continuation () => load() of a fulfilled promise.
RunLoad ==
    /\ microtasks # <<>>
    /\ Head(microtasks) = [kind |-> "load", outcome |-> "fulfilled"]
    /\ Becomes(load(Popped))
    /\ last' = [op |-> "load", result |-> loadResult(load(Popped))]

\* The caller's continuation of a rejected promise does not run.
SkipLoad ==
    /\ microtasks # <<>>
    /\ Head(microtasks) = [kind |-> "load", outcome |-> "rejected"]
    /\ Becomes(Popped)
    /\ last' = [op |-> "skipped", result |-> "none"]

Next ==
    \/ \E n \in CallbackNames : SetCallbackName(n)
    \/ AssignLibraries
    \/ PushLibrary
    \/ Load
    \/ LoadThen
    \/ ReleaseNow
    \/ ReleaseLater
    \/ Preload
    \/ \E i \in 1..Len(scripts) : ScriptLoads(i)
    \/ \E i \in 1..Len(scripts) : ScriptFails(i)
    \/ RunCleanup
    \/ SkipCleanup
    \/ RunLoad
    \/ SkipLoad

Spec == Init /\ [][Next]_vars

(***************************************************************************)
(* createUrl() over the configurations a caller can set up before the     *)
(* first load(): the loader starts with any of them, and load() injects   *)
(* the script whose src is the URL built from it.                         *)
(***************************************************************************)
Urls == {defaultUrlSettings.url, Null, "https://maps.example/js"}
Keys == {Null, "K"}
Clients == {Null, "C"}
Versions == {Null, "3.32", "3.27"}
Channels == {Null, "ch"}
LibraryLists == {<<>>, <<"geometry">>, <<"places", "geometry">>}
Languages == {Null, "ru"}
Regions == {Null, "RU"}
UrlCallbackNames == {defaultUrlSettings.windowCallbackName, Null, "cb"}

InitUrl ==
    /\ defaultLibraries = <<>>
    /\ \E u \in Urls, k \in Keys, c \in Clients, v \in Versions, ch \in Channels,
          ls \in LibraryLists, lg \in Languages, r \in Regions,
          n \in UrlCallbackNames :
          /\ urlSettings = [ url |-> u, key |-> k, client |-> c, version |-> v,
                             channel |-> ch, libraries |-> ls, language |-> lg,
                             region |-> r, windowCallbackName |-> n ]
          /\ sharedLibraries = (ls = <<>>)
    /\ promises = <<Pending>>
    /\ reactions = << <<>> >>
    /\ promise = 1
    /\ resolvePromise = 1
    /\ rejectPromise = 1
    /\ loaded = FALSE
    /\ scriptElement = NoElement
    /\ microtasks = <<>>
    /\ google = Undefined
    /\ windowCallbacks = {}
    /\ scripts = <<>>
    /\ session = 0
    /\ returned = {}
    /\ ended = [promise |-> 0, script |-> NoElement, started |-> FALSE]
    /\ trigger = "none"
    /\ injections = 0
    /\ registrations = 0
    /\ last = [op |-> "init", result |-> "none"]

NextUrl == Load

SpecUrl == InitUrl /\ [][NextUrl]_vars

(***************************************************************************)
(* Properties.                                                             *)
(***************************************************************************)
Settled(id) == promises[id].state # "pending"

\* C1: within one session (from a reset up to the next completed cleanup)
\* every call of load() returns the same future, the session's promise,
\* whether the call is made before or after the future settles.
C1_SameFuture ==
    /\ Cardinality(returned) <= 1
    /\ returned \subseteq {promise}
    /\ last.op = "load" => last.result = promise

\* A load() call made after the future of a session that injected a script
\* has settled: it is at least the second call of that session.
C1_Witness ==
    /\ last.op = "load"
    /\ injections = 1
    /\ Settled(promise)
    /\ returned = {promise}

\* C2: no session injects more than one script or registers more than one
\* callback; a session triggered while the API namespace was absent has made
\* exactly one injection and one registration, however many load() calls
\* followed.
C2_OneInjection ==
    /\ injections <= 1
    /\ registrations <= 1
    /\ (loaded /\ trigger = Undefined) => (injections = 1 /\ registrations = 1)

\* A later load() call, made from a continuation after the future settled,
\* in a session that was triggered without the namespace.
C2_Witness ==
    /\ last.op = "load"
    /\ trigger = Undefined
    /\ Settled(promise)
    /\ injections = 1
    /\ registrations = 1

\* The state right after cleanupEnvironment() has run, called by release()
\* itself or by the reaction release() registered.
CleanupDone == last.op \in {"releaseIdle", "cleanup"}

\* A fresh Idle session.
FreshIdle ==
    /\ ~loaded
    /\ promises[promise] = Pending
    /\ reactions[promise] = <<>>

\* The state right after the reaction registered by release() has run,
\* whatever the outcome of the future it waited for.
ReleaseSettled == last.op \in {"cleanup", "released"}

\* C3: when release() was called on a started session, the cleanup runs once
\* the future has settled, also when it was rejected: after the reaction of
\* release() has run, the loader is a fresh Idle session.
C3_CleanupOnRejection == ReleaseSettled => FreshIdle

\* C4: the future returned by release() is never rejected, also when the
\* load future it waited for was rejected.
C4_ReleaseNeverRejects ==
    (last.op = "releaseIdle" \/ ReleaseSettled) => last.result = "resolved"

\* C5: when the load-failure signal of a session's script arrives while that
\* session's future is unsettled, the future is rejected with an error that
\* names the URL of the script.
C5_FailureRejects ==
    [][\A i \in 1..Len(scripts) :
         ( /\ scripts[i].status = "loading"
           /\ last'.op = "scriptFails"
           /\ last'.result = i
           /\ promises[scripts[i].owner].state = "pending" )
         => promises'[scripts[i].owner] =
              [ state |-> "rejected",
                value |-> "The script " \o scripts[i].src \o " is not accessible." ]
      ]_vars

\* C6: a session whose first load() found the API namespace in the global
\* scope has its future fulfilled with that namespace, and has injected no
\* script and registered no callback.
C6_ShortCircuit ==
    trigger \notin {"none", Undefined}
    => /\ promises[promise] = [state |-> "fulfilled", value |-> trigger]
       /\ injections = 0
       /\ registrations = 0

\* C7: after release() has completed its cleanup, the callback slot that the
\* ended session registered is absent from the global scope.
C7_CallbackAbsent ==
    (CleanupDone /\ ended.script # NoElement)
    => scripts[ended.script].slot \notin windowCallbacks

\* C8: after release() has completed its cleanup on a session whose load
\* resolved, the configuration equals the defaults in every field, started is
\* false, the API namespace is absent, the session's script element is
\* detached and the stored handle is null.
C8_ReleaseResets ==
    (CleanupDone /\ ended.promise # 0 /\ promises[ended.promise].state = "fulfilled")
    => /\ urlSettings = defaultUrlSettings
       /\ ~loaded
       /\ google = Undefined
       /\ scriptElement = NoElement
       /\ ended.script # NoElement => ~scripts[ended.script].attached

\* A cleanup that ended a session which had injected a script and whose
\* load resolved.
C8_Witness ==
    /\ last.op = "cleanup"
    /\ ended.script # NoElement
    /\ promises[ended.promise].state = "fulfilled"
    /\ ~scripts[ended.script].attached

\* C9: after a completed cleanup the loader holds a new promise, distinct
\* from the one of the session before and unsettled when created, and the
\* next load() returns that promise and starts a new load attempt.
C9_NewSession ==
    /\ CleanupDone => /\ promise # ended.promise
                      /\ promises[promise] = Pending
                      /\ ~loaded
    /\ (last.op = "load" /\ session > 0)
       => /\ last.result = promise
          /\ last.result # ended.promise
          /\ loaded
          /\ trigger # "none"

\* The first load() of a second session, which injects a script again.
C9_Witness ==
    /\ last.op = "load"
    /\ session > 0
    /\ injections = 1
    /\ ~Settled(promise)
    /\ Settled(ended.promise)

\* C10: release() on a session that was never started has cleaned up when it
\* returns, returns a resolved promise, and leaves a fresh Idle session with
\* the default configuration.
C10_ReleaseBeforeLoad ==
    last.op = "releaseIdle"
    => /\ last.result = "resolved"
       /\ FreshIdle
       /\ urlSettings = defaultUrlSettings
       /\ ended.promise # promise

\* release() called a second time in a row on a session never started.
C10_Witness ==
    /\ last.op = "releaseIdle"
    /\ session >= 2
    /\ ended.script = NoElement
    /\ ~Settled(ended.promise)

\* C11: the default configuration is never changed by load(), release() or
\* the caller's changes of the live configuration, so after every completed
\* cleanup the libraries sequence of the configuration is empty.
C11_DefaultsUnchanged ==
    /\ defaultLibraries = <<>>
    /\ CleanupDone => urlSettings.libraries = <<>>

\* C12: the configuration is read at the first load() of a session only.
\* That call builds the URL of the injected script and registers the callback
\* from the configuration as it is then; while the session stays started,
\* no step (a change of the configuration, a later load()) alters the URL of
\* an injected script, the registered callback slots or the number of
\* injections.
C12_ReadAtFirstLoad ==
    [][ /\ (~loaded /\ loaded' /\ google = Undefined)
           => /\ scriptElement' = Len(scripts')
              /\ Len(scripts') = Len(scripts) + 1
              /\ scripts'[scriptElement'].src = createUrl(urlSettings)
              /\ windowCallbacks' =
                    windowCallbacks \cup {urlSettings.windowCallbackName}
        /\ (loaded /\ loaded')
           => /\ scriptElement' = scriptElement
              /\ Len(scripts') = Len(scripts)
              /\ \A i \in 1..Len(scripts) : scripts'[i].src = scripts[i].src
              /\ windowCallbacks' = windowCallbacks
              /\ injections' = injections
      ]_vars

\* The configuration was changed before the first load() and again after it:
\* the injected script has the URL of neither the defaults nor the
\* configuration as it is now.
C12_Witness ==
    /\ last.op = "configure"
    /\ loaded
    /\ scriptElement # NoElement
    /\ scripts[scriptElement].src # createUrl(urlSettings)
    /\ scripts[scriptElement].src # createUrl(defaultUrlSettings)

\* The parameters of the URL as the specification lists them: each candidate
\* in its place, with the condition under which it is present.
ExpectedParams(s) ==
    LET candidates ==
          << [ present |-> TRUE,
               text |-> "callback=" \o
                        (IF s.windowCallbackName = Null
                         THEN "__google_maps_api_provider_initializator__"
                         ELSE s.windowCallbackName) ],
             [ present |-> s.key # Null, text |-> "key=" \o s.key ],
             [ present |-> s.client # Null, text |-> "client=" \o s.client ],
             [ present |-> s.client # Null \/ s.version # Null,
               text |-> "v=" \o (IF s.version = Null THEN "3.32" ELSE s.version) ],
             [ present |-> s.channel # Null, text |-> "channel=" \o s.channel ],
             [ present |-> s.libraries # <<>>,
               text |-> "libraries=" \o join(s.libraries, ",") ],
             [ present |-> s.language # Null, text |-> "language=" \o s.language ],
             [ present |-> s.region # Null, text |-> "region=" \o s.region ] >>
        chosen == SelectSeq(candidates, LAMBDA c : c.present)
    IN  [i \in 1..Len(chosen) |-> chosen[i].text]

ExpectedUrl(s) ==
    (IF s.url = Null THEN "https://maps.googleapis.com/maps/api/js" ELSE s.url)
    \o "?" \o join(ExpectedParams(s), "&")

\* The configuration of the specification's example.
ExampleSettings ==
    [ url |-> "https://maps.googleapis.com/maps/api/js", key |-> "K",
      client |-> Null, version |-> "3.32", channel |-> Null,
      libraries |-> <<"places", "geometry">>, language |-> "ru",
      region |-> "RU",
      windowCallbackName |-> "__google_maps_api_provider_initializator__" ]

\* C13: for every configuration the URL of the injected script is the base
\* (the default base when falsy), '?', and the parameters joined with '&' in
\* the order callback, key, client, v, channel, libraries, language, region,
\* each present under its condition; the example configuration gives the
\* example URL.
C13_UrlConstruction ==
    scriptElement # NoElement
    => /\ scripts[scriptElement].src = ExpectedUrl(urlSettings)
       /\ urlSettings = ExampleSettings
          => scripts[scriptElement].src =
             "https://maps.googleapis.com/maps/api/js?callback=__google_maps_api_provider_initializator__&key=K&v=3.32&libraries=places,geometry&language=ru&region=RU"

\* The script injected for the example configuration.
C13_Witness ==
    /\ scriptElement # NoElement
    /\ urlSettings = ExampleSettings
    /\ last.op = "load"

\* The places of the version parameter among the parts ps.
VersionPlaces(ps) ==
    {i \in 1..Len(ps) : ps[i] \in {"v=" \o v : v \in (Versions \ {Null}) \cup {"3.32"}}}

\* C14: the version parameter v is emitted iff client or version is set, and
\* once; with a client its value is the configured version, or 3.32 when the
\* version is not set; without a client it is the configured version.
C14_VersionRule ==
    scriptElement # NoElement
    => LET s == urlSettings
           ps == scripts[scriptElement].parts
           vs == VersionPlaces(ps)
       IN  /\ Cardinality(vs) <= 1
           /\ (vs # {}) <=> (s.client # Null \/ s.version # Null)
           /\ (s.client # Null /\ s.version # Null)
              => \E i \in vs : ps[i] = "v=" \o s.version
           /\ (s.client # Null /\ s.version = Null)
              => \E i \in vs : ps[i] = "v=3.32"
           /\ (s.client = Null /\ s.version # Null)
              => \E i \in vs : ps[i] = "v=" \o s.version
           /\ scripts[scriptElement].src =
                 (IF s.url = Null THEN "https://maps.googleapis.com/maps/api/js"
                  ELSE s.url) \o "?" \o join(ps, "&")

\* A client with the version set to null: the default version is emitted.
C14_Witness ==
    /\ scriptElement # NoElement
    /\ urlSettings.client = "C"
    /\ urlSettings.version = Null
    /\ \E i \in 1..Len(scripts[scriptElement].parts) :
          scripts[scriptElement].parts[i] = "v=3.32"

\* C15: cleanupEnvironment() never runs while the current session is started
\* and its future is still unsettled: a cleanup that ended a started session
\* ended one whose promise had settled.
C15_NoCleanupWhileLoading ==
    (CleanupDone /\ ended.started) => Settled(ended.promise)

\* C16: when the registered callback is invoked while the promise bound to
\* resolvePromise is pending, that promise is fulfilled with the value
\* window.google.maps has at the invocation, which is not the absent value of
\* the time the callback was registered.
C16_LazyNamespace ==
    [][ ( /\ last'.op = "scriptLoads"
          /\ scripts[last'.result].callback \in windowCallbacks
          /\ promises[resolvePromise].state = "pending" )
        => /\ google' # Undefined
           /\ promises'[resolvePromise] = [state |-> "fulfilled", value |-> google']
      ]_vars

\* The callback has just fulfilled the promise of a session that was
\* triggered, and so registered the callback, without the namespace.
C16_Witness ==
    /\ last.op = "scriptLoads"
    /\ trigger = Undefined
    /\ promises[promise] = [state |-> "fulfilled", value |-> Namespace(last.result)]

\* C17: a future returned by load() settles once the platform has signalled
\* success or failure for the script injected for it.
C17_ReturnedSettles ==
    \A i \in 1..Len(scripts) :
        scripts[i].status = "done" => Settled(scripts[i].owner)

\* C18: while started is false the future of the current session is
\* unsettled.
C18_IdleUnsettled == ~loaded => promises[promise].state = "pending"

\* C19: at most one injected script element is attached to the document, it
\* is the one the handle refers to, and the handle is non-null only while
\* started is true.
C19_OneAttachedScript ==
    /\ Cardinality({i \in 1..Len(scripts) : scripts[i].attached}) <= 1
    /\ \A i \in 1..Len(scripts) : scripts[i].attached => scriptElement = i
    /\ scriptElement # NoElement => loaded

\* A later session has its script attached while the script of an earlier
\* session is detached.
C19_Witness ==
    /\ session > 0
    /\ scriptElement = 2
    /\ scripts[2].attached
    /\ ~scripts[1].attached

====
